---- MODULE Spec2Model ----
(***************************************************************************)
(* Minesweeper engine (Game), players (RandomAI, CSPAI) and Runner of      *)
(* minesweeper.py as a state machine.  Coordinates are <<x, y>> tuples,    *)
(* 2d lists indexed [x][y] are functions on Board.                         *)
(***************************************************************************)
EXTENDS Integers, Sequences, FiniteSets, Bags, TLC

\* Bounds of the model: largest board and largest number of mines.
MaxWidth == 3
MaxHeight == 3
MaxMines == 2
\* ... and the largest num_games passed to run_games.
MaxGames == 2
\* A caller appends a flag position to the flag list of the player while the
\* list holds fewer than this many copies of it.
MaxFlagCopies == 1
\* run_games with more than one game is explored on boards of at most this many
\* squares.
MaxRunCells == 6

VARIABLES
    width, height, num_mines,   \* Game.width, Game.height, Game.num_mines
    mines,                      \* Game.mines[x][y]
    counts,                     \* Game.counts[x][y]
    exposed,                    \* Game.exposed[x][y]
    num_moves,                  \* Game.num_moves
    num_exposed_squares,        \* Game._num_exposed_squares
    explosion,                  \* Game._explosion
    quit,                       \* Game._quit
    game_flags,                 \* Game._flags
    ai,                         \* class of the player object, "none" without a player
    ai_width, ai_height,        \* AI.width, AI.height
    exposed_squares,            \* AI.exposed_squares
    ai_flags,                   \* AI._flags (a list; kept as a bag)
    call,                       \* the last call made and its arguments
    ret,                        \* what the last call returned or raised
    num_games,                  \* run_games: num_games, 0 outside run_games
    game_n,                     \* run_games: n, the index of the game being played
    results                     \* run_games: results

boardVars == <<width, height, num_mines, mines, counts>>
gameVars == <<exposed, num_moves, num_exposed_squares, explosion, quit, game_flags>>
aiVars == <<ai, ai_width, ai_height, exposed_squares, ai_flags>>
runVars == <<num_games, game_n, results>>
vars == <<boardVars, gameVars, aiVars, call, ret, runVars>>

----------------------------------------------------------------------------
\* Grid geometry

\* range(self.width) x range(self.height)
Board == (0 .. width - 1) \X (0 .. height - 1)

\* itertools.product([-1, 0, 1], repeat=2), in iteration order
Deltas ==
    << <<-1, -1>>, <<-1, 0>>, <<-1, 1>>,
       <<0, -1>>,  <<0, 0>>,  <<0, 1>>,
       <<1, -1>>,  <<1, 0>>,  <<1, 1>> >>

\* Game._is_outside_board
_is_outside_board(x, y) ==
    IF x < 0 \/ x >= width THEN TRUE
    ELSE IF y < 0 \/ y >= height THEN TRUE
    ELSE FALSE

\* Square(x, y, num_mines)
Square(x, y, n) == [x |-> x, y |-> y, num_mines |-> n]

----------------------------------------------------------------------------
\* Board construction

\* inner loop of Game._init_counts for one square, from the k-th delta on
RECURSIVE CountNeighbours(_, _, _, _)
CountNeighbours(m, x, y, k) ==
    IF k > Len(Deltas) THEN 0
    ELSE LET dx == Deltas[k][1]
             dy == Deltas[k][2]
             here == IF dx = 0 /\ dy = 0 THEN 0
                     ELSE IF ~_is_outside_board(x + dx, y + dy)
                          THEN (IF m[<<x + dx, y + dy>>] THEN 1 ELSE 0)
                          ELSE 0
         IN here + CountNeighbours(m, x, y, k + 1)

\* Game._init_counts
_init_counts(m) == [c \in Board |-> CountNeighbours(m, c[1], c[2], 1)]

\* the while loop of Game._place_mines started with the set locations: the sets
\* it can end with.  Drawing a member of locations leaves the set as it is, so
\* only the draws that add a square are followed.
RECURSIVE _place_mines_from(_)
_place_mines_from(locations) ==
    IF Cardinality(locations) < num_mines
    THEN UNION {_place_mines_from(locations \cup {c}) : c \in Board \ locations}
    ELSE {locations}

\* Game._place_mines: the sets of squares it can turn into mines
_place_mines == _place_mines_from({})

\* the mine layouts a caller can pass to Game(config, mines) on a well-formed
\* board: num_mines mines
SuppliedMines == {S \in SUBSET Board : Cardinality(S) = num_mines}

\* Game._num_safe_squares
num_safe_squares == width * height - num_mines

----------------------------------------------------------------------------
\* Derived properties

\* Game.game_over
game_over_of(expl, q, nexp) == expl \/ q \/ nexp = num_safe_squares

game_over == game_over_of(explosion, quit, num_exposed_squares)

\* Game.status with the victory test ahead of the explosion test
status_of_victory_first(expl, q, nexp) ==
    IF ~game_over_of(expl, q, nexp) THEN "PLAYING"
    ELSE IF q THEN "QUIT"
    ELSE IF nexp = num_safe_squares THEN "VICTORY"
    ELSE "DEFEAT"

\* Game.status
status_of(expl, q, nexp) ==
    IF ~game_over_of(expl, q, nexp) THEN "PLAYING"
    ELSE IF q THEN "QUIT"
    ELSE IF expl THEN "DEFEAT"
    ELSE "VICTORY"

status == status_of(explosion, quit, num_exposed_squares)

\* Game.state: None for unexposed squares, the count otherwise.  A value that
\* is None or an int n is the sequence <<>> or <<n>>.
None == <<>>
Int_(n) == <<n>>

state == [c \in Board |-> IF exposed[c] THEN Int_(counts[c]) ELSE None]

----------------------------------------------------------------------------
\* Game.select and its helpers.  A game in the middle of _update is the record
\* g = [exposed, num_exposed_squares, explosion, squares, stack].

\* Game._expose_square without the counter update
_expose_square_no_count(g, x, y) ==
    [g EXCEPT !.exposed[<<x, y>>] = TRUE]

\* Game._expose_square
_expose_square(g, x, y) ==
    [g EXCEPT !.exposed[<<x, y>>] = TRUE,
              !.num_exposed_squares = @ + 1]

\* Game._test_if_count_0 with the test inverted
_test_if_count_not_0(x, y) == counts[<<x, y>>] # 0

\* Game._test_if_count_0
_test_if_count_0(x, y) == counts[<<x, y>>] = 0

\* body of the for loop of Game._update skipping the diagonal neighbours too
VisitNeighbourOrthogonal(g, x, y, dx, dy) ==
    IF (dx = 0 /\ dy = 0) \/ (dx # 0 /\ dy # 0) THEN g
    ELSE LET new_x == x + dx
             new_y == y + dy
         IN IF ~_is_outside_board(new_x, new_y)
            THEN IF ~g.exposed[<<new_x, new_y>>]
                 THEN LET g1 == _expose_square(g, new_x, new_y)
                          g2 == [g1 EXCEPT !.squares =
                                    Append(@, Square(new_x, new_y, counts[<<new_x, new_y>>]))]
                      IN IF _test_if_count_0(new_x, new_y)
                         THEN [g2 EXCEPT !.stack = Append(@, <<new_x, new_y>>),
                                         !.pushed = Append(@, <<new_x, new_y>>)]
                         ELSE g2
                 ELSE g
            ELSE g

\* body of the for loop over the neighbours of (x, y) in Game._update
VisitNeighbour(g, x, y, dx, dy) ==
    IF dx = 0 /\ dy = 0 THEN g
    ELSE LET new_x == x + dx
             new_y == y + dy
         IN IF ~_is_outside_board(new_x, new_y)
            THEN IF ~g.exposed[<<new_x, new_y>>]
                 THEN LET g1 == _expose_square(g, new_x, new_y)
                          g2 == [g1 EXCEPT !.squares =
                                    Append(@, Square(new_x, new_y, counts[<<new_x, new_y>>]))]
                      IN IF _test_if_count_0(new_x, new_y)
                         THEN [g2 EXCEPT !.stack = Append(@, <<new_x, new_y>>),
                                         !.pushed = Append(@, <<new_x, new_y>>)]
                         ELSE g2
                 ELSE g
            ELSE g

\* the for loop over the neighbours of (x, y), from the k-th delta on
RECURSIVE VisitNeighbours(_, _, _, _)
VisitNeighbours(g, x, y, k) ==
    IF k > Len(Deltas) THEN g
    ELSE VisitNeighbours(VisitNeighbour(g, x, y, Deltas[k][1], Deltas[k][2]), x, y, k + 1)

\* the while loop of Game._update written as an if: one square is popped
GrowRegionOnce(g) ==
    IF Len(g.stack) > 0
    THEN LET top == g.stack[Len(g.stack)]
             popped == [g EXCEPT !.stack = SubSeq(@, 1, Len(@) - 1),
                                 !.iterations = @ + 1]
         IN VisitNeighbours(popped, top[1], top[2], 1)
    ELSE g

\* the while loop of Game._update
RECURSIVE GrowRegion(_)
GrowRegion(g) ==
    IF Len(g.stack) > 0
    THEN LET top == g.stack[Len(g.stack)]
             popped == [g EXCEPT !.stack = SubSeq(@, 1, Len(@) - 1),
                                 !.iterations = @ + 1]
         IN GrowRegion(VisitNeighbours(popped, top[1], top[2], 1))
    ELSE g

\* Game._update without the _expose_square(x, y) of its first line
_update_start_unexposed(x, y) ==
    LET g0 == [exposed |-> exposed,
               num_exposed_squares |-> num_exposed_squares,
               explosion |-> explosion,
               squares |-> <<>>,
               stack |-> <<>>,
               pushed |-> <<>>,
               iterations |-> 0]
        g2 == [g0 EXCEPT !.squares = <<Square(x, y, counts[<<x, y>>])>>]
    IN IF mines[<<x, y>>] THEN [g2 EXCEPT !.explosion = TRUE]
       ELSE IF counts[<<x, y>>] # 0 THEN g2
       ELSE GrowRegion([g2 EXCEPT !.stack = <<(<<x, y>>)>>,
                                  !.pushed = <<(<<x, y>>)>>])

\* Game._update without the return for a square whose count is not 0
_update_always_grows(x, y) ==
    LET g0 == [exposed |-> exposed,
               num_exposed_squares |-> num_exposed_squares,
               explosion |-> explosion,
               squares |-> <<>>,
               stack |-> <<>>,
               pushed |-> <<>>,
               iterations |-> 0]
        g1 == _expose_square(g0, x, y)
        g2 == [g1 EXCEPT !.squares = <<Square(x, y, counts[<<x, y>>])>>]
    IN IF mines[<<x, y>>] THEN [g2 EXCEPT !.explosion = TRUE]
       ELSE GrowRegion([g2 EXCEPT !.stack = <<(<<x, y>>)>>,
                                  !.pushed = <<(<<x, y>>)>>])

\* Game._update.  Besides the fields and locals of the code the record keeps
\* every coordinate appended to the stack (pushed) and the number of passes of
\* the while loop (iterations).
_update(x, y) ==
    LET g0 == [exposed |-> exposed,
               num_exposed_squares |-> num_exposed_squares,
               explosion |-> explosion,
               squares |-> <<>>,
               stack |-> <<>>,
               pushed |-> <<>>,
               iterations |-> 0]
        g1 == _expose_square(g0, x, y)
        g2 == [g1 EXCEPT !.squares = <<Square(x, y, counts[<<x, y>>])>>]
    IN IF mines[<<x, y>>] THEN [g2 EXCEPT !.explosion = TRUE]
       ELSE IF counts[<<x, y>>] # 0 THEN g2
       ELSE GrowRegion([g2 EXCEPT !.stack = <<(<<x, y>>)>>,
                                  !.pushed = <<(<<x, y>>)>>])

\* set(new_squares) in MoveResult.__init__
SeqToSet(s) == {s[i] : i \in 1 .. Len(s)}

\* the precondition checks of Game.select without the already-exposed check
SelectErrorNoExposedCheck(x, y) ==
    IF _is_outside_board(x, y) THEN "outside"
    ELSE IF explosion THEN "over"
    ELSE "none"

\* the precondition checks of Game.select with the last two checks swapped
SelectErrorExposedFirst(x, y) ==
    IF _is_outside_board(x, y) THEN "outside"
    ELSE IF exposed[<<x, y>>] THEN "exposed"
    ELSE IF explosion THEN "over"
    ELSE "none"

\* the precondition checks of Game.select, in order: the error raised, or "none"
SelectError(x, y) ==
    IF _is_outside_board(x, y) THEN "outside"
    ELSE IF explosion THEN "over"
    ELSE IF exposed[<<x, y>>] THEN "exposed"
    ELSE "none"

\* MoveResult(status, squares), or the ValueError raised
MoveResult(st, squares) == [raised |-> "none", status |-> st, new_squares |-> SeqToSet(squares)]
Raised(e) == [raised |-> e, status |-> "none", new_squares |-> {}]
NoResult == [raised |-> "none", status |-> "none", new_squares |-> {}]

\* Game.select
Select(x, y) ==
    /\ call' = [op |-> "select", x |-> x, y |-> y]
    /\ IF SelectError(x, y) # "none"
       THEN /\ ret' = Raised(SelectError(x, y))
            /\ UNCHANGED gameVars
       ELSE LET g == _update(x, y)
            IN /\ num_moves' = num_moves + 1
               /\ exposed' = g.exposed
               /\ num_exposed_squares' = g.num_exposed_squares
               /\ explosion' = g.explosion
               /\ ret' = MoveResult(status_of(g.explosion, quit, g.num_exposed_squares),
                                    g.squares)
               /\ UNCHANGED <<quit, game_flags>>
    /\ UNCHANGED <<boardVars, aiVars, runVars>>

\* Game.quit
Quit ==
    /\ quit' = TRUE
    /\ call' = [op |-> "quit", x |-> -1, y |-> -1]
    /\ ret' = NoResult
    /\ UNCHANGED <<exposed, num_moves, num_exposed_squares, explosion, game_flags>>
    /\ UNCHANGED <<boardVars, aiVars, runVars>>

\* the flag positions a caller passes, and the lists of them
FlagPositions == {<<0, 0>>}
FlagLists == {<<>>, <<(<<0, 0>>)>>, <<(<<0, 0>>), (<<0, 0>>)>>}

\* the setter of Game.flags: self._flags = set(flags)
SetFlags(flags) ==
    /\ game_flags' = SeqToSet(flags)
    /\ call' = [op |-> "flags", x |-> -1, y |-> -1]
    /\ ret' = NoResult
    /\ UNCHANGED <<exposed, num_moves, num_exposed_squares, explosion, quit>>
    /\ UNCHANGED <<boardVars, aiVars, runVars>>

----------------------------------------------------------------------------
\* Game.__init__ on a well-formed configuration (0 <= num_mines < width*height,
\* exactly num_mines mines), and the player after AI.reset(config).

InitGame ==
    /\ width \in 1 .. MaxWidth
    /\ height \in 1 .. MaxHeight
    /\ num_mines \in 0 .. MaxMines
    /\ num_mines < width * height
    /\ \E S \in SuppliedMines \cup _place_mines : mines = [c \in Board |-> c \in S]
    /\ counts = _init_counts(mines)
    /\ exposed = [c \in Board |-> FALSE]
    /\ num_moves = 0
    /\ num_exposed_squares = 0
    /\ explosion = FALSE
    /\ quit = FALSE
    /\ game_flags = {}

\* Game.__init__ called by a caller that drives the engine itself: no player.
Init ==
    /\ InitGame
    /\ ai = "none"
    /\ ai_width = 0
    /\ ai_height = 0
    /\ exposed_squares = {}
    /\ ai_flags = EmptyBag
    /\ call = [op |-> "init", x |-> -1, y |-> -1]
    /\ ret = NoResult
    /\ num_games = 0
    /\ game_n = 0
    /\ results = <<>>

\* The coordinates a caller passes to select: every square of the board and one
\* coordinate past each of its four edges.
SelectInputs == Board \cup {<<-1, 0>>, <<width, 0>>, <<0, -1>>, <<0, height>>}

\* The engine driven through its API by any caller.
Next ==
    \/ \E c \in SelectInputs : Select(c[1], c[2])
    \/ Quit
    \/ \E flags \in FlagLists : SetFlags(flags)

Spec == Init /\ [][Next]_vars

----------------------------------------------------------------------------
\* CSPAI: the equations and the inference loop.  eq_values is np.array(state),
\* eqs the array of sets built by calc_equations; both are functions on the
\* player's grid.

\* range(self.width) x range(self.height) of the player
AIBoard == (0 .. ai_width - 1) \X (0 .. ai_height - 1)

\* the squares (x + i, y + j) that CSPAI.calc_equations adds to eqs[x, y]
UnexposedAround(eq_values, c) ==
    {n \in AIBoard :
        /\ n[1] - c[1] \in {-1, 0, 1}
        /\ n[2] - c[2] \in {-1, 0, 1}
        /\ ~(n[1] - c[1] = 0 /\ n[2] - c[2] = 0)
        /\ eq_values[n] = None}

\* CSPAI.calc_equations
calc_equations(eq_values) ==
    [c \in AIBoard |-> IF c \in exposed_squares THEN UnexposedAround(eq_values, c) ELSE {}]

\* truth value of an array element in "if eq_values[x][y]:"
Truthy(v) == v # None /\ v[1] # 0

\* eq_values[i, j] -= 1, done n times; on None the statement raises TypeError
Decremented(v, n) ==
    IF n = 0 THEN v
    ELSE IF v = None THEN None
    ELSE Int_(v[1] - n)

\* CSPAI.find_mine without merging the mines of the earlier passes
find_mine_no_merge(eqs, eq_values, mines_) ==
    LET found == UNION {eqs[c] : c \in {d \in AIBoard :
                                          /\ Truthy(eq_values[d])
                                          /\ eq_values[d] = Int_(Cardinality(eqs[d]))}}
    IN [eqs |-> [c \in AIBoard |-> eqs[c] \ found],
        eq_values |-> [c \in AIBoard |->
                          Decremented(eq_values[c], Cardinality(eqs[c] \cap found))],
        mines |-> found,
        error |-> \E c \in AIBoard : eqs[c] \cap found # {} /\ eq_values[c] = None]

\* CSPAI.find_mine with the saturation test against the count of all neighbours
\* left in the equation plus one
find_mine_off_by_one(eqs, eq_values, mines_) ==
    LET found == UNION {eqs[c] : c \in {d \in AIBoard :
                                          /\ Truthy(eq_values[d])
                                          /\ eq_values[d] = Int_(Cardinality(eqs[d]) - 1)}}
    IN [eqs |-> [c \in AIBoard |-> eqs[c] \ found],
        eq_values |-> [c \in AIBoard |->
                          Decremented(eq_values[c], Cardinality(eqs[c] \cap found))],
        mines |-> found \cup mines_,
        error |-> \E c \in AIBoard : eqs[c] \cap found # {} /\ eq_values[c] = None]

\* CSPAI.find_mine: (eqs, eq_values, mines); error tells that the decrement hit
\* a None value
find_mine(eqs, eq_values, mines_) ==
    LET found == UNION {eqs[c] : c \in {d \in AIBoard :
                                          /\ Truthy(eq_values[d])
                                          /\ eq_values[d] = Int_(Cardinality(eqs[d]))}}
    IN [eqs |-> [c \in AIBoard |-> eqs[c] \ found],
        eq_values |-> [c \in AIBoard |->
                          Decremented(eq_values[c], Cardinality(eqs[c] \cap found))],
        mines |-> found \cup mines_,
        error |-> \E c \in AIBoard : eqs[c] \cap found # {} /\ eq_values[c] = None]

\* CSPAI.find_safe leaving the safe squares it finds in the equations
find_safe_no_removal(eqs, eq_values, safe_) ==
    LET found == UNION {eqs[c] : c \in {d \in AIBoard : eq_values[d] = Int_(0)}}
    IN [eqs |-> eqs,
        eq_values |-> eq_values,
        safe |-> found \cup safe_]

\* CSPAI.find_safe: (eqs, eq_values, safe)
find_safe(eqs, eq_values, safe_) ==
    LET found == UNION {eqs[c] : c \in {d \in AIBoard : eq_values[d] = Int_(0)}}
    IN [eqs |-> [c \in AIBoard |-> eqs[c] \ found],
        eq_values |-> eq_values,
        safe |-> found \cup safe_]

\* one pass of the while loop of CSPAI.find_safe_and_mine; L holds the locals
\* of the loop, the number of passes made and the (mines, safe) of every pass
InferencePass(L) ==
    LET m == find_mine(L.eqs_, L.eq_values_, L.mines_)
        f == find_safe(m.eqs, m.eq_values, L.safe_)
        same == m.mines = L.mines_ /\ f.safe = L.safe_
    IN [eqs_ |-> f.eqs,
        eq_values_ |-> f.eq_values,
        mines_ |-> IF same THEN L.mines_ ELSE m.mines,
        safe_ |-> IF same THEN L.safe_ ELSE f.safe,
        mines |-> m.mines,
        safe |-> f.safe,
        done |-> same,
        error |-> L.error \/ m.error,
        passes |-> L.passes + 1,
        trace |-> Append(L.trace, [mines |-> m.mines, safe |-> f.safe])]

\* the while loop of CSPAI.find_safe_and_mine
RECURSIVE InferenceLoop(_)
InferenceLoop(L) ==
    LET L1 == InferencePass(L)
    IN IF L1.done \/ L1.error THEN L1 ELSE InferenceLoop(L1)

\* CSPAI.find_safe_and_mine: the locals when the loop is left; .mines and .safe
\* are the pair returned
find_safe_and_mine(eqs, eq_values) ==
    InferenceLoop([eqs_ |-> eqs,
                   eq_values_ |-> eq_values,
                   mines_ |-> {},
                   safe_ |-> {},
                   mines |-> {},
                   safe |-> {},
                   done |-> FALSE,
                   error |-> FALSE,
                   passes |-> 0,
                   trace |-> <<>>])

\* eqs, mines and safe as computed at the start of CSPAI.next(state)
Inference == find_safe_and_mine(calc_equations(state), state)

\* the retry loop of next without the test against the flag list
EligibleIgnoringFlags(fl) ==
    {c \in AIBoard : c \notin exposed_squares}

\* the coordinates accepted by the retry loop of RandomAI.next and CSPAI.next
\* with the flag list fl
Eligible(fl) ==
    {c \in AIBoard : c \notin exposed_squares /\ c \notin BagToSet(fl)}

\* self._flags.extend(mines)
Extended(fl, ms) == fl (+) SetToBag(ms)

\* the flag list after next: _flags.extend(mines) in CSPAI.next, given the
\* result inf of find_safe_and_mine
FlagsAfterNext(inf) ==
    IF ai = "CSPAI" THEN Extended(ai_flags, inf.mines) ELSE ai_flags

\* the coordinates RandomAI.next / CSPAI.next may return: safe.pop() when safe
\* is not empty, else what the retry loop accepts
NextChoices(inf) ==
    IF ai = "CSPAI" /\ inf.safe # {}
    THEN inf.safe
    ELSE Eligible(FlagsAfterNext(inf))

\* AI.update that records nothing
update_nothing(result) == exposed_squares

\* AI.update
update(result) == exposed_squares \cup {<<r.x, r.y>> : r \in result.new_squares}

----------------------------------------------------------------------------
\* Runner.__next__

\* self.game.flags = self.ai.flags, done whatever the status of the result
FlagsAfterMoveAlways(result, fl) == BagToSet(fl)

\* Game._flags after the move: self.game.flags = self.ai.flags (the setter
\* stores set(flags)) when the result is PLAYING
FlagsAfterMove(result, fl) ==
    IF result.status = "PLAYING" THEN BagToSet(fl) ELSE game_flags

\* the game is not over: next, select, update.  With no coordinate to return
\* the retry loop of next never ends and the step never completes.
RunnerMove ==
    /\ ~game_over
    /\ LET inf == IF ai = "CSPAI" THEN Inference ELSE [mines |-> {}, safe |-> {}, error |-> FALSE]
       IN IF inf.error
          THEN /\ call' = [op |-> "next", x |-> -1, y |-> -1]
               /\ ret' = Raised("TypeError")
               /\ UNCHANGED <<gameVars, exposed_squares, ai_flags>>
          ELSE \E c \in NextChoices(inf) :
                 /\ call' = [op |-> "next", x |-> c[1], y |-> c[2]]
                 /\ ai_flags' = FlagsAfterNext(inf)
                 /\ IF SelectError(c[1], c[2]) # "none"
                    THEN /\ ret' = Raised(SelectError(c[1], c[2]))
                         /\ UNCHANGED <<gameVars, exposed_squares>>
                    ELSE LET g == _update(c[1], c[2])
                             result == MoveResult(status_of(g.explosion, quit,
                                                            g.num_exposed_squares),
                                                  g.squares)
                         IN /\ num_moves' = num_moves + 1
                            /\ exposed' = g.exposed
                            /\ num_exposed_squares' = g.num_exposed_squares
                            /\ explosion' = g.explosion
                            /\ ret' = result
                            /\ exposed_squares' = update(result)
                            /\ game_flags' = FlagsAfterMove(result, FlagsAfterNext(inf))
                            /\ UNCHANGED quit
    /\ UNCHANGED <<boardVars, ai, ai_width, ai_height, runVars>>

\* the game is over: StopIteration
RunnerStop ==
    /\ game_over
    /\ call' = [op |-> "next", x |-> -1, y |-> -1]
    /\ ret' = Raised("StopIteration")
    /\ UNCHANGED <<boardVars, gameVars, aiVars, runVars>>

\* the first game of run_games(config, num_games, ai) with a new player:
\* ai.reset(config); Game(config); Runner(game, ai)
InitFirstGame ==
    /\ InitGame
    /\ mines \in {[c \in Board |-> c \in S] : S \in _place_mines}
    /\ ai \in {"RandomAI", "CSPAI"}
    /\ ai_width = width
    /\ ai_height = height
    /\ exposed_squares = {}
    /\ ai_flags = EmptyBag
    /\ call = [op |-> "init", x |-> -1, y |-> -1]
    /\ ret = NoResult
    /\ game_n = 0
    /\ results = <<>>

\* one game driven by a Runner
InitRunner ==
    /\ InitFirstGame
    /\ num_games = 1

NextRunner ==
    \/ RunnerMove
    \/ RunnerStop

SpecRunner == InitRunner /\ [][NextRunner]_vars

----------------------------------------------------------------------------
\* A game driven by a Runner whose caller also uses the flag API of the player
\* between the steps.

\* the list val as the flag list of the player
SeqToBag(val) ==
    [e \in SeqToSet(val) |-> Cardinality({i \in 1 .. Len(val) : val[i] = e})]

\* AI.append
AIAppend(val) ==
    /\ CopiesIn(val, ai_flags) < MaxFlagCopies
    /\ ai_flags' = ai_flags (+) SetToBag({val})
    /\ call' = [op |-> "append", x |-> val[1], y |-> val[2]]
    /\ ret' = NoResult
    /\ UNCHANGED <<boardVars, gameVars, ai, ai_width, ai_height, exposed_squares, runVars>>

\* the setter of AI.flags with a list: self._flags = val
AISetFlags(val) ==
    /\ ai_flags' = SeqToBag(val)
    /\ call' = [op |-> "ai.flags", x |-> -1, y |-> -1]
    /\ ret' = NoResult
    /\ UNCHANGED <<boardVars, gameVars, ai, ai_width, ai_height, exposed_squares, runVars>>

NextCaller ==
    \/ NextRunner
    \/ \E val \in FlagPositions : AIAppend(val)
    \/ \E val \in FlagLists : AISetFlags(val)

SpecCaller == InitRunner /\ [][NextCaller]_vars

----------------------------------------------------------------------------
\* Game(config, mines) with any layout of the size of the board

\* the layouts a caller can pass to Game(config, mines): __init__ copies the
\* layout as it is, whatever config.num_mines says
AnySuppliedMines == {S \in SUBSET Board : Cardinality(S) <= MaxMines}

InitSupplied ==
    /\ width \in 1 .. MaxWidth
    /\ height \in 1 .. MaxHeight
    /\ num_mines \in 0 .. MaxMines
    /\ num_mines < width * height
    /\ \E S \in AnySuppliedMines : mines = [c \in Board |-> c \in S]
    /\ counts = _init_counts(mines)
    /\ exposed = [c \in Board |-> FALSE]
    /\ num_moves = 0
    /\ num_exposed_squares = 0
    /\ explosion = FALSE
    /\ quit = FALSE
    /\ game_flags = {}
    /\ ai = "none"
    /\ ai_width = 0
    /\ ai_height = 0
    /\ exposed_squares = {}
    /\ ai_flags = EmptyBag
    /\ call = [op |-> "init", x |-> -1, y |-> -1]
    /\ ret = NoResult
    /\ num_games = 0
    /\ game_n = 0
    /\ results = <<>>

SpecSupplied == InitSupplied /\ [][Next]_vars

----------------------------------------------------------------------------
\* run_games without a visualizer

\* GameResult(victory, num_moves)
GameResult(victory, moves) == [victory |-> victory, num_moves |-> moves]

\* Game.result reporting every game without an explosion as won
result_not_exploded ==
    IF ~game_over
    THEN [raised |-> "ValueError", victory |-> FALSE, num_moves |-> -1]
    ELSE [raised |-> "none", victory |-> ~explosion, num_moves |-> num_moves]

\* Game.result: what reading the property raises, and the fields of the
\* GameResult it returns when it raises nothing
result ==
    IF ~game_over
    THEN [raised |-> "ValueError", victory |-> FALSE, num_moves |-> -1]
    ELSE [raised |-> "none", victory |-> status = "VICTORY", num_moves |-> num_moves]

\* AI.reset leaving exposed_squares as it is
reset_keeping_exposed ==
    [width |-> width, height |-> height,
     exposed_squares |-> exposed_squares, flags |-> EmptyBag]

\* RandomAI.reset / CSPAI.reset with the config of the game: the fields after
reset ==
    [width |-> width, height |-> height,
     exposed_squares |-> {}, flags |-> EmptyBag]

\* "for _ in runner: pass": one more __next__ while nothing was raised
RunGamesIterate ==
    /\ game_n < num_games
    /\ Len(results) = game_n
    /\ ret.raised = "none"
    /\ NextRunner

\* results.append(game.result) once the for loop got StopIteration; Game.result
\* raises ValueError when the game is not over
RunGamesAppend ==
    /\ Len(results) = game_n
    /\ call.op = "next"
    /\ ret = Raised("StopIteration")
    /\ call' = [op |-> "result", x |-> -1, y |-> -1]
    /\ IF result.raised # "none"
       THEN /\ ret' = Raised(result.raised)
            /\ UNCHANGED results
       ELSE /\ ret' = NoResult
            /\ results' = Append(results, GameResult(result.victory, result.num_moves))
    /\ UNCHANGED <<boardVars, gameVars, aiVars, num_games, game_n>>

\* the next turn of the loop of run_games: ai.reset(config); Game(config);
\* Runner(game, ai)
RunGamesStart ==
    /\ Len(results) = game_n + 1
    /\ game_n + 1 < num_games
    /\ game_n' = game_n + 1
    /\ ai_width' = reset.width
    /\ ai_height' = reset.height
    /\ exposed_squares' = reset.exposed_squares
    /\ ai_flags' = reset.flags
    /\ \E S \in _place_mines :
          /\ mines' = [c \in Board |-> c \in S]
          /\ counts' = _init_counts(mines')
    /\ exposed' = [c \in Board |-> FALSE]
    /\ num_moves' = 0
    /\ num_exposed_squares' = 0
    /\ explosion' = FALSE
    /\ quit' = FALSE
    /\ game_flags' = {}
    /\ call' = [op |-> "init", x |-> -1, y |-> -1]
    /\ ret' = NoResult
    /\ UNCHANGED <<width, height, num_mines, ai, num_games, results>>

\* run_games(config, num_games, ai) with num_games >= 1
InitRunGames ==
    /\ InitFirstGame
    /\ num_games \in 1 .. MaxGames
    /\ num_games > 1 => width * height <= MaxRunCells

NextRunGames ==
    \/ RunGamesIterate
    \/ RunGamesAppend
    \/ RunGamesStart

SpecRunGames == InitRunGames /\ [][NextRunGames]_vars

\* ENABLED <<RunGamesIterate>>_vars as a state predicate: the for loop is
\* running and __next__ can complete, by StopIteration, by an error of
\* find_mine, or with a coordinate accepted by next
RunGamesIterateEnabled ==
    /\ game_n < num_games
    /\ Len(results) = game_n
    /\ ret.raised = "none"
    /\ \/ game_over
       \/ LET inf == IF ai = "CSPAI" THEN Inference
                     ELSE [mines |-> {}, safe |-> {}, error |-> FALSE]
          IN inf.error \/ NextChoices(inf) # {}

\* every turn of the loops of run_games is eventually taken: the interpreter
\* keeps running, and the retry loop of next eventually draws a coordinate it
\* accepts.  The last conjunct is WF_vars(RunGamesIterate) with its ENABLED
\* written as RunGamesIterateEnabled.
FairSpecRunGames ==
    /\ SpecRunGames
    /\ WF_vars(RunGamesAppend)
    /\ WF_vars(RunGamesStart)
    /\ ([]<>~RunGamesIterateEnabled \/ []<><<RunGamesIterate>>_vars)

----------------------------------------------------------------------------
\* Vocabulary of the properties

\* the squares for which a 2d list of booleans is True
TrueSquares(f) == {c \in Board : f[c]}

\* the coordinates of a set of Square records
Coords(squares) == {<<r.x, r.y>> : r \in squares}

\* the in-bounds 8-neighbours of a square
Neighbours(c) ==
    {n \in Board : n # c /\ n[1] - c[1] \in -1 .. 1 /\ n[2] - c[2] \in -1 .. 1}

\* the step is a call of select(c) that returned a MoveResult
SelectReturned(c) ==
    /\ call'.op = "select"
    /\ call' = [op |-> "select", x |-> c[1], y |-> c[2]]
    /\ ret'.raised = "none"
    /\ num_moves' = num_moves + 1

\* the step is a call of select(c) that raised
SelectRaised(c) ==
    /\ call' = [op |-> "select", x |-> c[1], y |-> c[2]]
    /\ ret'.raised # "none"

\* the last call was select(c) and it returned a MoveResult
LastSelectReturned(c) ==
    /\ call = [op |-> "select", x |-> c[1], y |-> c[2]]
    /\ ret.raised = "none"

----------------------------------------------------------------------------
\* C1: once the status is not PLAYING, no later select or quit changes the
\* exposed array, the exposed counter, the move counter or the status.
C1_TerminalGameFrozen ==
    [][status # "PLAYING" =>
         /\ UNCHANGED <<exposed, num_exposed_squares, num_moves>>
         /\ status' = status]_vars

\* C2 as stated: the status leaves PLAYING for DEFEAT exactly when the selected
\* square is a mine, for VICTORY exactly when a select brings the exposed count
\* to width*height - num_mines, for QUIT exactly when quit is called.
C2_TransitionsAsStated ==
    [][status = "PLAYING" =>
         /\ status' = "DEFEAT" <=>
               \E c \in Board : SelectReturned(c) /\ mines[c]
         /\ status' = "VICTORY" <=>
               \E c \in Board : SelectReturned(c) /\ num_exposed_squares' = num_safe_squares
         /\ status' = "QUIT" <=> call'.op = "quit"]_vars

\* C2 amended: as stated, but VICTORY exactly when a select of a square that is
\* no mine brings the exposed count to width*height - num_mines.
C2_Transitions ==
    [][status = "PLAYING" =>
         /\ status' = "DEFEAT" <=>
               \E c \in Board : SelectReturned(c) /\ mines[c]
         /\ status' = "VICTORY" <=>
               \E c \in Board : /\ SelectReturned(c)
                                /\ ~mines[c]
                                /\ num_exposed_squares' = num_safe_squares
         /\ status' = "QUIT" <=> call'.op = "quit"]_vars

\* a select of a mine in a PLAYING game brought the exposed count to
\* width*height - num_mines and the game is lost
C2_Witness ==
    /\ call.op = "select"
    /\ ret.status = "DEFEAT"
    /\ num_exposed_squares = num_safe_squares
    /\ num_moves > 1

\* the 3x3 board with its single mine at (2,2), after select(0,0) as first call
\* that changes the game
Scenario3x3 ==
    /\ width = 3 /\ height = 3
    /\ TrueSquares(mines) = {<<2, 2>>}
    /\ num_moves = 1
    /\ ~quit
    /\ LastSelectReturned(<<0, 0>>)

\* C3 as stated: select(0,0) exposes exactly (0,0), (1,0), (0,1) and (1,1); the
\* status is PLAYING and 4 squares are exposed.
C3_ScenarioAsStated ==
    Scenario3x3 =>
        /\ ret.new_squares = {Square(0, 0, 0), Square(1, 0, 0), Square(0, 1, 0),
                              Square(1, 1, 1)}
        /\ TrueSquares(exposed) = {<<0, 0>>, <<1, 0>>, <<0, 1>>, <<1, 1>>}
        /\ ret.status = "PLAYING"
        /\ num_exposed_squares = 4

\* C3 amended: select(0,0) exposes the eight squares that are no mine, (0,0),
\* (1,0), (2,0), (0,1), (0,2) with count 0 and (1,1), (2,1), (1,2) with count 1;
\* only the mine (2,2) stays unexposed, the status is VICTORY and 8 squares are
\* exposed.
C3_Scenario ==
    Scenario3x3 =>
        /\ ret.new_squares = {Square(0, 0, 0), Square(1, 0, 0), Square(2, 0, 0),
                              Square(0, 1, 0), Square(0, 2, 0),
                              Square(1, 1, 1), Square(2, 1, 1), Square(1, 2, 1)}
        /\ TrueSquares(exposed) = Board \ {<<2, 2>>}
        /\ ret.status = "VICTORY"
        /\ num_exposed_squares = 8

C3_Witness == Scenario3x3

\* the zero-count squares linked to the squares of Z by chains of 8-adjacent
\* zero-count squares
RECURSIVE ZeroClosure(_)
ZeroClosure(Z) ==
    LET more == {n \in Board : counts[n] = 0 /\ \E z \in Z : n \in Neighbours(z)}
    IN IF more \subseteq Z THEN Z ELSE ZeroClosure(Z \cup more)

\* the reference region of a zero-count square c
ReferenceRegion(c) ==
    LET Z == ZeroClosure({c})
    IN Z \cup UNION {Neighbours(z) : z \in Z}

\* C4: in a PLAYING game, a select of an unexposed zero-count square that is no
\* mine returns exactly the squares of the reference region that were not
\* exposed before; every returned square but the selected one is a neighbour of
\* a returned zero-count square.
C4_FloodRegion ==
    [][\A c \in Board :
          (/\ status = "PLAYING"
           /\ SelectReturned(c)
           /\ ~mines[c]
           /\ counts[c] = 0)
          => LET got == Coords(ret'.new_squares)
             IN /\ got = ReferenceRegion(c) \ TrueSquares(exposed)
                /\ \A n \in got \ {c} :
                      \E z \in got : counts[z] = 0 /\ n \in Neighbours(z)]_vars

\* a flood went through a second zero-count square and stopped at a square
\* with a non-zero count, leaving a square that is no mine unexposed
C4_Witness ==
    \E c \in Board :
        /\ LastSelectReturned(c)
        /\ counts[c] = 0
        /\ ret.status = "PLAYING"
        /\ \E r \in ret.new_squares : r.num_mines # 0
        /\ \E r \in ret.new_squares : r.num_mines = 0 /\ <<r.x, r.y>> # c

\* C5: a successful select grows the number of exposed squares by the number of
\* returned records, every returned square was unexposed before and is exposed
\* after with its precomputed count, and the exposed counter equals the number
\* of squares whose exposed flag is true.
C5_ExposedAccounting ==
    /\ [](num_exposed_squares = Cardinality(TrueSquares(exposed)))
    /\ [][\A c \in Board :
            SelectReturned(c) =>
              /\ Cardinality(TrueSquares(exposed')) =
                    Cardinality(TrueSquares(exposed)) + Cardinality(ret'.new_squares)
              /\ \A r \in ret'.new_squares :
                    /\ <<r.x, r.y>> \in Board
                    /\ ~exposed[<<r.x, r.y>>]
                    /\ exposed'[<<r.x, r.y>>]
                    /\ r.num_mines = counts[<<r.x, r.y>>]]_vars

\* a select returned several records in a game that had exposed squares before
C5_Witness ==
    /\ call.op = "select"
    /\ ret.raised = "none"
    /\ Cardinality(ret.new_squares) > 1
    /\ num_exposed_squares > Cardinality(ret.new_squares)

\* C6: the exposed count never decreases, and never exceeds
\* width*height - num_mines while the status is PLAYING or VICTORY.
C6_ExposedCountBounded ==
    /\ [](status \in {"PLAYING", "VICTORY"} => num_exposed_squares <= num_safe_squares)
    /\ [][num_exposed_squares' >= num_exposed_squares]_vars

\* a won game after several selects
C6_Witness ==
    /\ status = "VICTORY"
    /\ num_moves > 1
    /\ num_exposed_squares = num_safe_squares

\* C7: a successful select of a mine returns DEFEAT with exactly one record, the
\* mine with its precomputed count, and exposes no other square.
C7_MineSelectIsDefeat ==
    [][\A c \in Board :
          (SelectReturned(c) /\ mines[c]) =>
             /\ ret'.status = "DEFEAT"
             /\ ret'.new_squares = {Square(c[1], c[2], counts[c])}
             /\ exposed' = [exposed EXCEPT ![c] = TRUE]]_vars

\* C8: select raises out-of-bounds for a coordinate outside the grid, otherwise
\* already-over when the game has exploded, otherwise already-exposed when the
\* square is exposed; a select that raises leaves the move counter, the exposed
\* array, the exposed counter and the status unchanged.
C8_SelectErrors ==
    [][\A c \in SelectInputs :
          call' = [op |-> "select", x |-> c[1], y |-> c[2]] =>
             LET outside == c \notin Board
             IN /\ outside => ret'.raised = "outside"
                /\ (~outside /\ explosion) => ret'.raised = "over"
                /\ (~outside /\ ~explosion /\ exposed[c]) => ret'.raised = "exposed"
                /\ (~outside /\ ~explosion /\ ~exposed[c]) => ret'.raised = "none"
                /\ ret'.raised # "none" =>
                      /\ UNCHANGED <<num_moves, exposed, num_exposed_squares>>
                      /\ status' = status]_vars

\* a select of the exposed mine of a lost game raised already-over
C8_Witness ==
    /\ call.op = "select"
    /\ ret.raised = "over"
    /\ <<call.x, call.y>> \in Board
    /\ exposed[<<call.x, call.y>>]

\* C9: in every PLAYING state of a game whose player is updated after each
\* move, no square that find_safe_and_mine reports as safe holds a mine, every
\* square it reports as a mine holds one, the two reported sets are disjoint,
\* and every square of the solver's flag list holds a mine.
C9_SolverSound ==
    /\ status = "PLAYING" =>
          /\ ~Inference.error
          /\ Inference.safe \cap TrueSquares(mines) = {}
          /\ Inference.mines \subseteq TrueSquares(mines)
          /\ Inference.mines \cap Inference.safe = {}
    /\ BagToSet(ai_flags) \subseteq TrueSquares(mines)

\* the solver, having flagged a mine earlier, reports a mine and a safe square
\* while a square that is no mine is still unexposed and not reported safe
C9_Witness ==
    /\ ai = "CSPAI"
    /\ status = "PLAYING"
    /\ ai_flags # EmptyBag
    /\ Inference.mines # {}
    /\ Inference.safe # {}
    /\ num_mines > Cardinality(Inference.mines)

\* C10: the loop of find_safe_and_mine is left after at most width*height
\* passes, the last of which changed nothing; from pass to pass the mine set
\* and the safe set only grow.
C10_InferenceTerminates ==
    LET inf == Inference
        n == Len(inf.trace)
        before(i) == IF i = 1 THEN [mines |-> {}, safe |-> {}] ELSE inf.trace[i - 1]
    IN /\ inf.passes = n
       /\ n >= 1
       /\ n <= width * height
       /\ inf.done
       /\ inf.trace[n] = before(n)
       /\ \A i \in 1 .. n :
             /\ before(i).mines \subseteq inf.trace[i].mines
             /\ before(i).safe \subseteq inf.trace[i].safe
             /\ i < n => inf.trace[i] # before(i)

\* the loop made three passes: what the first pass deduced let the second pass
\* deduce more
C10_Witness ==
    /\ status = "PLAYING"
    /\ Inference.passes >= 3

\* C11 as stated: every coordinate returned by next is inside the grid, is not
\* in the player's exposed_squares and not in its flag list (before and after
\* the flags found by this call are appended); CSPAI returns a member of the
\* safe set whenever that set is not empty.
C11_NextCoordinateAsStated ==
    [][(call'.op = "next" /\ ret'.raised \notin {"StopIteration", "TypeError"}) =>
          LET c == <<call'.x, call'.y>>
          IN /\ c \in AIBoard
             /\ c \in Board
             /\ c \notin exposed_squares
             /\ c \notin BagToSet(ai_flags)
             /\ c \notin BagToSet(ai_flags')
             /\ (ai = "CSPAI" /\ Inference.safe # {}) => c \in Inference.safe]_vars

\* C11: every coordinate returned by next is inside the grid and not in the
\* player's exposed_squares.  CSPAI returns a member of the safe set whenever
\* that set is not empty; such a coordinate is none of the mines this call
\* appends to the flag list, and it is in the flag list only if a caller put
\* it there.  RandomAI, and CSPAI with an empty safe set, return a coordinate
\* that is not in the flag list.  So with a flag list that holds mines only,
\* as the list written by next alone does, no returned coordinate is flagged.
C11_NextCoordinate ==
    [][(call'.op = "next" /\ ret'.raised \notin {"StopIteration", "TypeError"}) =>
          LET c == <<call'.x, call'.y>>
              fromSafe == ai = "CSPAI" /\ Inference.safe # {}
          IN /\ c \in AIBoard
             /\ c \in Board
             /\ c \notin exposed_squares
             /\ fromSafe =>
                   /\ c \in Inference.safe
                   /\ c \notin Inference.mines
                   /\ c \in BagToSet(ai_flags') => c \in BagToSet(ai_flags)
             /\ ~fromSafe =>
                   /\ c \notin BagToSet(ai_flags)
                   /\ c \notin BagToSet(ai_flags')
             /\ BagToSet(ai_flags) \subseteq TrueSquares(mines) =>
                   c \notin BagToSet(ai_flags')]_vars

\* CSPAI returned a safe square that a caller had appended to its flag list,
\* next to the mines found by next
C11_Witness ==
    /\ ai = "CSPAI"
    /\ call.op = "next"
    /\ ret.raised = "none"
    /\ <<call.x, call.y>> \in BagToSet(ai_flags)
    /\ BagToSet(ai_flags) \cap TrueSquares(mines) # {}
    /\ ~mines[<<call.x, call.y>>]

\* C12: a Runner step on a game that is not over makes one next, one successful
\* select of the coordinate next returned (move counter +1) and one update with
\* the result of that select; a step on a game that is over raises StopIteration
\* and changes neither the game nor the player; the flags of the game are
\* overwritten from the player's flags exactly when the result is PLAYING.
C12_RunnerStep ==
    [][/\ ~game_over =>
            LET c == <<call'.x, call'.y>>
            IN /\ call'.op = "next"
               /\ c \in Board
               /\ ret'.raised = "none"
               /\ num_moves' = num_moves + 1
               /\ ~exposed[c] /\ exposed'[c]
               /\ Square(c[1], c[2], counts[c]) \in ret'.new_squares
               /\ Coords(ret'.new_squares) = TrueSquares(exposed') \ TrueSquares(exposed)
               /\ ret'.status = status'
               /\ exposed_squares' = exposed_squares \cup Coords(ret'.new_squares)
               /\ game_flags' = IF ret'.status = "PLAYING"
                                THEN BagToSet(ai_flags')
                                ELSE game_flags
       /\ game_over =>
            /\ ret'.raised = "StopIteration"
            /\ UNCHANGED <<boardVars, gameVars, aiVars>>]_vars

\* the step that ended the game found a mine the game's flags do not hold, and
\* a later step raised StopIteration
C12_Witness ==
    /\ ai = "CSPAI"
    /\ ret.raised = "StopIteration"
    /\ status = "VICTORY"
    /\ game_flags # BagToSet(ai_flags)
    /\ num_moves > 1

----------------------------------------------------------------------------
\* C13: every Runner-driven game on a well-formed board, played by a RandomAI
\* or a CSPAI that was reset before the game, reaches a terminal status after
\* at most width*height steps: while the game is not over the retry loop of
\* next has a coordinate to accept, and, the loop eventually drawing one, the
\* game is eventually over.  run_games reads game.result only when the game is
\* over, so the read never raises, appends one result per game and ends with
\* num_games results.

\* the result of find_safe_and_mine used by the next call to next
NextInference ==
    IF ai = "CSPAI" THEN Inference ELSE [mines |-> {}, safe |-> {}, error |-> FALSE]

C13_GamesTerminate ==
    /\ [](~game_over => Eligible(FlagsAfterNext(NextInference)) # {})
    /\ [](num_moves <= width * height)
    /\ [](ret.raised \in {"none", "StopIteration"})
    /\ [][call'.op = "result" =>
            /\ game_over
            /\ results' = Append(results, GameResult(status = "VICTORY", num_moves))]_vars
    /\ [][results' # results => Len(results') = game_n + 1]_vars
    /\ [](Len(results) \in {game_n, game_n + 1} /\ Len(results) <= num_games)
    /\ (~game_over) ~> game_over
    /\ <>[](Len(results) = num_games)

\* two games were played to their end, one won and one lost, the second one
\* in as many moves as the board has safe squares plus one
C13_Witness ==
    /\ num_games = 2
    /\ Len(results) = 2
    /\ results[1].victory
    /\ ~results[2].victory
    /\ results[2].num_moves > 2
    /\ ai = "CSPAI"

----------------------------------------------------------------------------
\* C14: for every configuration with 0 <= num_mines < width*height, a
\* constructed game has exactly num_mines mines, counts[x][y] is the number of
\* mines among the in-bounds 8-neighbours of (x, y) for every square, and no
\* select or quit changes mines or counts.
C14_Construction ==
    /\ [](Cardinality(TrueSquares(mines)) = num_mines)
    /\ [](\A c \in Board : counts[c] = Cardinality({d \in Neighbours(c) : mines[d]}))
    /\ [][UNCHANGED <<mines, counts>>]_vars

----------------------------------------------------------------------------
\* C15: reading Game.result raises ValueError whenever the game is not over;
\* otherwise it returns victory = (status = VICTORY) and num_moves, the number
\* of selects that returned a MoveResult.  A victory is reported only if every
\* square without a mine is exposed, no mine was exposed and quit was never
\* called.
C15_Result ==
    /\ [](~game_over => result.raised = "ValueError")
    /\ [](game_over =>
            /\ result.raised = "none"
            /\ result.victory = (status = "VICTORY")
            /\ result.num_moves = num_moves)
    /\ [][num_moves' = num_moves +
             (IF call'.op = "select" /\ ret'.raised = "none" THEN 1 ELSE 0)]_vars
    /\ []((result.raised = "none" /\ result.victory) =>
            /\ Board \ TrueSquares(mines) \subseteq TrueSquares(exposed)
            /\ TrueSquares(mines) \cap TrueSquares(exposed) = {}
            /\ ~explosion
            /\ ~quit)

\* a game won in more than one move, its result read
C15_Witness ==
    /\ result.raised = "none"
    /\ result.victory
    /\ result.num_moves > 1
    /\ num_mines > 0
    /\ call.op = "select"

----------------------------------------------------------------------------
\* C16: the region-growing loop of select terminates: in one call of select
\* every square is exposed at most once, emitted at most once (no coordinate
\* appears twice among the records returned) and pushed on the stack at most
\* once, so the while loop makes at most width*height passes.

\* no element occurs twice in the sequence
NoDuplicates(seq) == \A i, j \in 1 .. Len(seq) : seq[i] = seq[j] => i = j

\* the coordinates of a sequence of Square records, in order
CoordSeq(squares) == [i \in 1 .. Len(squares) |-> <<squares[i].x, squares[i].y>>]

C16_RegionGrowingTerminates ==
    \A c \in Board :
        SelectError(c[1], c[2]) = "none" =>
            LET g == _update(c[1], c[2])
            IN /\ g.stack = <<>>
               /\ NoDuplicates(CoordSeq(g.squares))
               /\ \A i \in 1 .. Len(g.squares) : ~exposed[CoordSeq(g.squares)[i]]
               /\ g.num_exposed_squares = num_exposed_squares + Len(g.squares)
               /\ NoDuplicates(g.pushed)
               /\ g.iterations = Len(g.pushed)
               /\ g.iterations <= width * height

\* a select on a board with mines grew a region through several squares with
\* count zero
C16_Witness ==
    /\ LastSelectReturned(<<0, 0>>)
    /\ num_mines > 0
    /\ Cardinality({r \in ret.new_squares : r.num_mines = 0}) > 2
    /\ Cardinality(ret.new_squares) > 5

----------------------------------------------------------------------------
\* C17: when find_safe_and_mine returns on the state of a game being played on
\* a well-formed board, every mine and every safe square it deduced is removed
\* from every equation, the target of an equation is its count less the mines
\* removed from it (removing a safe square leaves it as it was), every target
\* is between 0 and the size of its set, and no equation with a non-empty set
\* has a target of 0 or of the size of the set.
C17_InferenceComplete ==
    status = "PLAYING" =>
        LET inf == Inference
            eqs == calc_equations(state)
        IN /\ ~inf.error
           /\ \A c \in AIBoard :
                 /\ inf.eqs_[c] = eqs[c] \ (inf.mines \cup inf.safe)
                 /\ state[c] # None =>
                       /\ inf.eq_values_[c] =
                             Int_(state[c][1] - Cardinality(eqs[c] \cap inf.mines))
                       /\ inf.eq_values_[c][1] >= 0
                       /\ inf.eq_values_[c][1] <= Cardinality(inf.eqs_[c])
                       /\ inf.eqs_[c] # {} =>
                             /\ inf.eq_values_[c][1] # 0
                             /\ inf.eq_values_[c][1] # Cardinality(inf.eqs_[c])
                 /\ state[c] = None => inf.eqs_[c] = {} /\ inf.eq_values_[c] = None

\* the solver deduced a mine and a safe square, and an equation with two
\* squares and a target of one is left
C17_Witness ==
    /\ ai = "CSPAI"
    /\ status = "PLAYING"
    /\ Inference.mines # {}
    /\ Inference.safe # {}
    /\ \E c \in AIBoard :
          /\ Cardinality(Inference.eqs_[c]) = 2
          /\ Inference.eq_values_[c] = Int_(1)
          /\ calc_equations(state)[c] # Inference.eqs_[c]

----------------------------------------------------------------------------
\* C18: in every state reached by successful selects from a fresh well-formed
\* board in which no mine has exploded, every exposed square with count 0 has
\* all its in-bounds 8-neighbours exposed; so the equation calc_equations
\* builds for an exposed square with count 0 is empty, and find_safe_and_mine
\* deduces the same mines and safe squares from the equations of all exposed
\* squares as from the equations of the exposed squares with a count other
\* than 0.

\* equations built only for the exposed squares whose count is not 0
NonZeroEquations(eq_values) ==
    [c \in AIBoard |->
        IF c \in exposed_squares /\ eq_values[c] # Int_(0)
        THEN UnexposedAround(eq_values, c)
        ELSE {}]

C18_ZeroSquaresClosed ==
    ~explosion =>
        /\ \A c \in Board :
              (exposed[c] /\ counts[c] = 0) => Neighbours(c) \subseteq TrueSquares(exposed)
        /\ \A c \in exposed_squares :
              state[c] = Int_(0) => calc_equations(state)[c] = {}
        /\ NonZeroEquations(state) = calc_equations(state)
        /\ LET nz == find_safe_and_mine(NonZeroEquations(state), state)
           IN /\ nz.mines = Inference.mines
              /\ nz.safe = Inference.safe

\* region growing went through squares with count 0 and the solver deduces
\* from the squares at the rim of the region
C18_Witness ==
    /\ ai = "CSPAI"
    /\ status = "PLAYING"
    /\ Cardinality({c \in exposed_squares : state[c] = Int_(0)}) > 1
    /\ Inference.safe # {}
    /\ Inference.mines # {}

----------------------------------------------------------------------------
\* C19: region growing never exposes a mine: a mine becomes exposed only by
\* being the square selected.  So on a well-formed board, whenever the status
\* is VICTORY the exposed squares are exactly the squares without a mine.
C19_VictoryExact ==
    /\ [][\A d \in Board :
            (mines[d] /\ exposed'[d] /\ ~exposed[d]) =>
                /\ call' = [op |-> "select", x |-> d[1], y |-> d[2]]
                /\ ret'.raised = "none"
                /\ Coords(ret'.new_squares) = {d}]_vars
    /\ [][\A c \in Board :
            SelectReturned(c) =>
                TrueSquares(mines) \cap Coords(ret'.new_squares) \subseteq {c}]_vars
    /\ [](status = "VICTORY" => TrueSquares(exposed) = Board \ TrueSquares(mines))

\* a game with mines won by a select that grew a region
C19_Witness ==
    /\ status = "VICTORY"
    /\ num_mines > 1
    /\ num_moves > 1
    /\ call.op = "select"
    /\ ret.raised = "none"
    /\ Cardinality(ret.new_squares) > 2

----------------------------------------------------------------------------
\* C20: in a Runner-driven game whose player was reset before the game, at the
\* start of every step the exposed_squares of the player are the squares the
\* engine has exposed; so the coordinate next returns is on the board and
\* unexposed, and select never raises, also in the later games of run_games,
\* which plays all its games with one player object.
C20_PlayerTracksEngine ==
    /\ [](exposed_squares = TrueSquares(exposed))
    /\ [](ai_width = width /\ ai_height = height)
    /\ [](ret.raised \notin {"outside", "over", "exposed"})
    /\ [][(call'.op = "next" /\ ~game_over) =>
            /\ <<call'.x, call'.y>> \in Board
            /\ ~exposed[<<call'.x, call'.y>>]
            /\ ret'.raised = "none"
            /\ num_moves' = num_moves + 1]_vars

\* the second game of run_games, played by the player of the first, is under
\* way after a first game in which squares were exposed
C20_Witness ==
    /\ num_games = 2
    /\ game_n = 1
    /\ Len(results) = 1
    /\ results[1].num_moves > 1
    /\ call.op = "next"
    /\ ret.raised = "none"
    /\ num_moves > 1
    /\ status = "PLAYING"

====
